---- MODULE Spec2Model ----
(***************************************************************************)
(* A model of the FileShareApp peer-to-peer node: the peer directory of    *)
(* peer.py, the JOIN / LIST / NAME / QUIT handlers and the buildPeers walk *)
(* of backend.py, the stabilizer sweep checkLivePeers, the frames of       *)
(* PeerConnection, and the file index with the QUERY flood, QRESPONSE and  *)
(* FGET of backend.py as frontend.py drives them.                          *)
(*                                                                         *)
(* A PeerID is the node's name; a node's address (host, port) is written   *)
(* as the name of the node that listens there, so a directory record may   *)
(* name another address than the one the id belongs to.                    *)
(***************************************************************************)
EXTENDS Integers, Sequences, FiniteSets, TLC

Nodes == {"A", "B", "C"}

\* The node whose own threads (collaborator, stabilizer) are modelled; the
\* other nodes serve requests, and their own walks reach it as EnvJoin.
Observed == "A"

\* Python's None (buildPeers' peerid before NAME answered, an unset field).
NoPeer == "None"

\* A client outside the modelled nodes that opens a connection.
Env == "env"

\* Largest directory capacity (maxPeers) the model draws; 0 means unlimited.
MaxCap == 2

\* hops of the first buildPeers call, Gui.__init__(hops=2).
Hops == 2

REPLY == "REPL"
ERROR == "ERRO"

VARIABLES
    peers,      \* peers[n]: Peer.peers of node n, PeerID -> address
    maxPeers,   \* Peer.maxPeers, the same for every node (IPGui.maxPeers)
    alive,      \* the nodes whose server socket still accepts connections
    handler,    \* handler[n]: the handler thread of n that holds peerLock
    gui,        \* gui[n]: the collaborator thread of n (buildPeers, onRemove)
    stab,       \* stab[n]: the stabilizer thread of n (checkLivePeers)
    ev,         \* the call the last step made, with its result and reply
    walk0,      \* not a variable of the code: the state in which the first
                \* buildPeers call of a quiet network was made
    files,      \* files[n]: MyPeer.files of node n in insertion order
    disk,       \* disk[n]: the files in node n's working directory
    queries,    \* the __processQuery threads that have not run yet
    search0,    \* not a variable of the code: the state in which the one
                \* search of a quiet network was made
    wire,       \* one message on its way through a PeerConnection, or the
                \* replies on their way back to a connectAndSend call
    shutdown,   \* shutdown[n]: Peer.shutdown of node n
    main,       \* main[n]: the mainLoop thread of node n
    storing,    \* the __handleQResponse threads that found their file name
                \* absent and have not stored it yet
    iter,       \* a thread inside a loop over getPeerIds(): the forwarding
                \* loop of __processQuery or the loop of __handleListPeers
    conn        \* an accepted connection and its __handlePeer thread

fileVars == <<files, disk, queries, search0>>

loopVars == <<shutdown, main>>

threadVars == <<storing, iter, conn>>

otherVars == <<wire, loopVars, threadVars>>

vars == <<peers, maxPeers, alive, handler, gui, stab, ev, walk0, fileVars,
          otherVars>>

----------------------------------------------------------------------------
(* Values *)

Empty == [x \in {} |-> NoPeer]

Put(f, k, v) == [x \in (DOMAIN f) \cup {k} |-> IF x = k THEN v ELSE f[x]]

Drop(f, ks) == [x \in (DOMAIN f) \ ks |-> f[x]]

Ev(op, n, pid, host, ret, out) ==
    [op |-> op, n |-> n, pid |-> pid, host |-> host, ret |-> ret, out |-> out,
     fwd |-> {}, hop |-> 0]

NoEv == Ev("none", NoPeer, NoPeer, NoPeer, FALSE, <<>>)

IdleHandler == [pc |-> "idle", pid |-> NoPeer, host |-> NoPeer, client |-> NoPeer]

\* A call of buildPeers on the stack.  added is not a variable of the code:
\* whether this call's addPeer has stored its entry.
Frame(host, hops, peerid, pc, todo) ==
    [host |-> host, hops |-> hops, peerid |-> peerid, pc |-> pc, todo |-> todo,
     added |-> FALSE]

NoWalk == [host |-> NoPeer, peers |-> [n \in Nodes |-> Empty], alive |-> {}]

NoWire == [pc |-> "none"]

\* No thread is inside a loop over the directory.  dir0 is not a variable of
\* the code: the directory when the loop began.
NoIter == [pc |-> "none", kind |-> "none", n |-> NoPeer, size0 |-> 0,
           visited |-> {}, dir0 |-> Empty, data |-> <<>>, hop |-> 0,
           count |-> 0, out |-> <<>>]

\* The mainLoop thread before the first test of its loop, the server socket
\* listening.  seen is not a variable of the code: what accept() has done.
\* No connection has been accepted.
NoConn == [pc |-> "none", n |-> NoPeer, type |-> "None", data |-> <<>>,
           reset |-> FALSE, reads |-> 0, msgtype |-> "None",
           invoked |-> <<>>, replies |-> <<>>, raised |-> FALSE,
           open |-> FALSE]

Listening == [pc |-> "test", seen |-> {}]

NoSearch == [key |-> <<>>, files |-> [n \in Nodes |-> <<>>]]

IdleGui == [op |-> "idle", stack |-> <<>>, rm |-> NoPeer]

\* passed is not a variable of the code: the ids whose probe connected.
IdleStab == [pc |-> "idle", size0 |-> 0, visited |-> {}, cur |-> NoPeer,
             toDelete |-> {}, passed |-> {}]

----------------------------------------------------------------------------
(* Peer directory, peer.py *)

getPeerIds(dir) == DOMAIN dir

numberOfPeers(dir) == Cardinality(DOMAIN dir)

\* The assertion of maxPeersReached.
maxPeersAssert(dir) == maxPeers = 0 \/ numberOfPeers(dir) <= maxPeers

\* maxPeersReached that only reports a directory past its capacity.
maxPeersReachedLate(dir) == maxPeers > 0 /\ numberOfPeers(dir) > maxPeers

maxPeersReached(dir) == maxPeers > 0 /\ numberOfPeers(dir) = maxPeers

\* The condition of addPeer: the value it returns.
addPeerOK(dir, peerid) ==
    /\ peerid \notin DOMAIN dir
    /\ (maxPeers = 0 \/ numberOfPeers(dir) < maxPeers)

\* addPeer without the test that the id is not yet a key.
addPeerOverwrite(dir, peerid, host) ==
    IF maxPeers = 0 \/ numberOfPeers(dir) < maxPeers \/ peerid \in DOMAIN dir
    THEN Put(dir, peerid, host) ELSE dir

addPeer(dir, peerid, host) ==
    IF addPeerOK(dir, peerid) THEN Put(dir, peerid, host) ELSE dir

\* removePeer that empties the directory when it holds the id.
removePeerAll(dir, peerid) == IF peerid \in DOMAIN dir THEN Empty ELSE dir

removePeer(dir, peerid) == Drop(dir, {peerid})

\* MyPeer.__router: the next hop of a direct neighbour, None otherwise.
router(dir, peerid) == IF peerid \in getPeerIds(dir) THEN dir[peerid] ELSE NoPeer

----------------------------------------------------------------------------
(* JOIN handler, backend.py __handleInsertPeer.  JoinDecision is the part   *)
(* up to the call of addPeer; JoinAdd is addPeer and the success reply.    *)

\* The handler without the test peerid != self.myId.
JoinDecisionAnyId(dir, me, peerid) ==
    IF ~maxPeersAssert(dir) THEN "assert"
    ELSE IF maxPeersReached(dir) THEN "full"
    ELSE IF peerid \notin getPeerIds(dir) THEN "add"
    ELSE "dup"

JoinDecision(dir, me, peerid) ==
    IF ~maxPeersAssert(dir) THEN "assert"
    ELSE IF maxPeersReached(dir) THEN "full"
    ELSE IF peerid \notin getPeerIds(dir) /\ peerid # me THEN "add"
    ELSE "dup"

JoinError(d) ==
    IF d = "full" THEN <<ERROR, "Join: too many peers">>
    ELSE IF d = "dup" THEN <<ERROR, "Join: peer already inserted">>
    ELSE <<ERROR, "Join: incorrect arguments">>

Top(st) == st[Len(st)]

Ret(st) == SubSeq(st, 1, Len(st) - 1)

SetTop(st, f) == [st EXCEPT ![Len(st)] = f]

Running(st) == [op |-> IF st = <<>> THEN "idle" ELSE "walk", stack |-> st,
                rm |-> NoPeer]

\* A JOIN request of a client outside the model: any id, any address.
EnvJoin(n, peerid, host) ==
    /\ n \in alive
    /\ handler[n].pc = "idle"
    /\ LET d == JoinDecision(peers[n], n, peerid) IN
        /\ handler' = IF d = "add"
                      THEN [handler EXCEPT ![n] =
                              [pc |-> "add", pid |-> peerid, host |-> host,
                               client |-> Env]]
                      ELSE handler
        /\ ev' = Ev("JoinCheck", n, peerid, host, d = "add",
                    IF d = "add" THEN <<>> ELSE <<JoinError(d)>>)
    /\ UNCHANGED <<peers, maxPeers, alive, gui, stab, walk0, fileVars, otherVars>>

JoinAdd(n) ==
    /\ n \in alive
    /\ handler[n].pc = "add"
    /\ LET h == handler[n]
           c == h.client IN
        /\ peers' = [peers EXCEPT ![n] = addPeer(peers[n], h.pid, h.host)]
        /\ ev' = Ev("JoinAdd", n, h.pid, h.host, addPeerOK(peers[n], h.pid),
                    << <<REPLY, "Join: peer added">> >>)
        /\ gui' = IF c \in Nodes
                  THEN [gui EXCEPT ![c].stack =
                          SetTop(@, [Top(@) EXCEPT !.pc = "joined"])]
                  ELSE gui
    /\ handler' = [handler EXCEPT ![n] = IdleHandler]
    /\ UNCHANGED <<maxPeers, alive, stab, walk0, fileVars, otherVars>>

----------------------------------------------------------------------------
(* Peer.addPeer called by any code of node n, peer.py *)

AddPeer(n, peerid, host) ==
    /\ n \in alive
    /\ peers' = [peers EXCEPT ![n] = addPeer(@, peerid, host)]
    /\ ev' = Ev("Peer.addPeer", n, peerid, host, addPeerOK(peers[n], peerid),
                <<>>)
    /\ UNCHANGED <<maxPeers, alive, handler, gui, stab, walk0, fileVars, otherVars>>

----------------------------------------------------------------------------
(* QUIT handler, backend.py __handleQuit *)

QuitReply(dir, peerid) ==
    IF peerid \in getPeerIds(dir)
    THEN <<REPLY, "Quit: peer removed">>
    ELSE <<ERROR, "Quit: peer not found">>

EnvQuit(n, peerid) ==
    /\ n \in alive
    /\ handler[n].pc = "idle"
    /\ peers' = [peers EXCEPT ![n] = removePeer(@, peerid)]
    /\ ev' = Ev("Quit", n, peerid, NoPeer, peerid \in getPeerIds(peers[n]),
                <<QuitReply(peers[n], peerid)>>)
    /\ UNCHANGED <<maxPeers, alive, handler, gui, stab, walk0, fileVars, otherVars>>

----------------------------------------------------------------------------
(* buildPeers, backend.py *)

\* The call with the hop test off by one: a call with one hop left returns.
CallLastHopSkipped(n, st, host, hops) ==
    IF ~maxPeersAssert(peers[n])
    THEN /\ gui' = [gui EXCEPT ![n] = Running(IF st = <<>> THEN st ELSE Ret(st))]
         /\ peers' = IF st = <<>> THEN peers
                     ELSE [peers EXCEPT ![n] = removePeer(@, Top(st).peerid)]
    ELSE IF maxPeersReached(peers[n]) \/ hops <= 1
    THEN /\ gui' = [gui EXCEPT ![n] = Running(st)]
         /\ peers' = peers
    ELSE /\ gui' = [gui EXCEPT ![n] =
                      Running(Append(st, Frame(host, hops, NoPeer, "name", {})))]
         /\ peers' = peers

\* A call buildPeers(host, hops) made by node n with the frames st below it:
\* lines 233-234, and the caller's except clause when the assertion fails.
Call(n, st, host, hops) ==
    IF ~maxPeersAssert(peers[n])
    THEN /\ gui' = [gui EXCEPT ![n] = Running(IF st = <<>> THEN st ELSE Ret(st))]
         /\ peers' = IF st = <<>> THEN peers
                     ELSE [peers EXCEPT ![n] = removePeer(@, Top(st).peerid)]
    ELSE IF maxPeersReached(peers[n]) \/ hops = 0
    THEN /\ gui' = [gui EXCEPT ![n] = Running(st)]
         /\ peers' = peers
    ELSE /\ gui' = [gui EXCEPT ![n] =
                      Running(Append(st, Frame(host, hops, NoPeer, "name", {})))]
         /\ peers' = peers

buildPeers(n, host) ==
    /\ n \in alive
    /\ gui[n].op = "idle"
    /\ Call(n, <<>>, host, Hops)
    /\ ev' = Ev("buildPeers", n, NoPeer, host, FALSE, <<>>)
    /\ UNCHANGED <<maxPeers, alive, handler, stab, fileVars, otherVars>>

BuildPeers(n, host) == buildPeers(n, host) /\ UNCHANGED walk0

\* The one buildPeers call of a network in which nothing else is started.
FirstBuildPeers(n, host) ==
    /\ walk0 = NoWalk
    /\ buildPeers(n, host)
    /\ walk0' = [host |-> host, peers |-> peers, alive |-> alive]

\* Line 241: the NAME exchange.  An unreachable host gives no reply, the
\* index raises and the except clause runs removePeer(None).
WalkName(n) ==
    /\ n \in alive
    /\ gui[n].op = "walk"
    /\ LET st == gui[n].stack
           f == Top(st) IN
        /\ f.pc = "name"
        /\ gui' = [gui EXCEPT ![n] =
                     IF f.host \in alive
                     THEN Running(SetTop(st, [f EXCEPT !.peerid = f.host,
                                                       !.pc = "join"]))
                     ELSE Running(Ret(st))]
    /\ ev' = NoEv
    /\ UNCHANGED <<peers, maxPeers, alive, handler, stab, walk0, fileVars, otherVars>>

\* Lines 244-248: the JOIN exchange, up to the remote handler's decision.
WalkJoin(n) ==
    /\ n \in alive
    /\ gui[n].op = "walk"
    /\ LET st == gui[n].stack
           f == Top(st) IN
        /\ f.pc = "join"
        /\ IF f.host \notin alive
           THEN /\ peers' = [peers EXCEPT ![n] = removePeer(@, f.peerid)]
                /\ gui' = [gui EXCEPT ![n] = Running(Ret(st))]
                /\ ev' = Ev("cleanup", n, f.peerid, f.host, FALSE, <<>>)
                /\ UNCHANGED handler
           ELSE /\ handler[f.host].pc = "idle"
                /\ LET d == JoinDecision(peers[f.host], f.host, n) IN
                    /\ handler' = IF d = "add"
                                  THEN [handler EXCEPT ![f.host] =
                                          [pc |-> "add", pid |-> n, host |-> n,
                                           client |-> n]]
                                  ELSE handler
                    /\ gui' = [gui EXCEPT ![n] =
                                 IF d = "add"
                                 THEN Running(SetTop(st, [f EXCEPT !.pc = "waitJoin"]))
                                 ELSE Running(Ret(st))]
                    /\ ev' = Ev("JoinCheck", f.host, n, n, d = "add",
                                IF d = "add" THEN <<>> ELSE <<JoinError(d)>>)
                /\ UNCHANGED peers
    /\ UNCHANGED <<maxPeers, alive, stab, walk0, fileVars, otherVars>>

\* Line 247, second operand: the discovered id is already known.
WalkJoined(n) ==
    /\ n \in alive
    /\ gui[n].op = "walk"
    /\ LET st == gui[n].stack
           f == Top(st) IN
        /\ f.pc = "joined"
        /\ gui' = [gui EXCEPT ![n] =
                     IF f.peerid \in getPeerIds(peers[n])
                     THEN Running(Ret(st))
                     ELSE Running(SetTop(st, [f EXCEPT !.pc = "addPeer"]))]
    /\ ev' = NoEv
    /\ UNCHANGED <<peers, maxPeers, alive, handler, stab, walk0, fileVars, otherVars>>

\* Line 250, addPeer without the lock: its condition is evaluated here ...
WalkAddCheck(n) ==
    /\ n \in alive
    /\ gui[n].op = "walk"
    /\ LET st == gui[n].stack
           f == Top(st)
           ok == addPeerOK(peers[n], f.peerid) IN
        /\ f.pc = "addPeer"
        /\ gui' = [gui EXCEPT ![n] =
                     Running(SetTop(st, [f EXCEPT !.pc =
                                           IF ok THEN "store" ELSE "list"]))]
        /\ ev' = Ev("addPeer", n, f.peerid, f.host, ok, <<>>)
    /\ UNCHANGED <<peers, maxPeers, alive, handler, stab, walk0, fileVars, otherVars>>

\* ... and its assignment self.peers[peerid] = (host, port) here.
WalkAddStore(n) ==
    /\ n \in alive
    /\ gui[n].op = "walk"
    /\ LET st == gui[n].stack
           f == Top(st) IN
        /\ f.pc = "store"
        /\ peers' = [peers EXCEPT ![n] = Put(@, f.peerid, f.host)]
        /\ gui' = [gui EXCEPT ![n] =
                     Running(SetTop(st, [f EXCEPT !.pc = "list",
                                                  !.added = TRUE]))]
        /\ ev' = Ev("store", n, f.peerid, f.host, TRUE, <<>>)
    /\ UNCHANGED <<maxPeers, alive, handler, stab, walk0, fileVars, otherVars>>

\* The reply frames of __handleListPeers after the count: "id host port".
ListReply(dir) == {<<p, dir[p]>> : p \in getPeerIds(dir)}

\* Lines 253-257: the LIST exchange.
WalkList(n) ==
    /\ n \in alive
    /\ gui[n].op = "walk"
    /\ LET st == gui[n].stack
           f == Top(st) IN
        /\ f.pc = "list"
        /\ IF f.host \notin alive
           THEN gui' = [gui EXCEPT ![n] = Running(Ret(st))]
           ELSE /\ handler[f.host].pc = "idle"
                /\ gui' = [gui EXCEPT ![n] =
                             IF ListReply(peers[f.host]) = {}
                             THEN Running(Ret(st))
                             ELSE Running(SetTop(st,
                                    [f EXCEPT !.pc = "loop",
                                              !.todo = ListReply(peers[f.host])]))]
    /\ ev' = NoEv
    /\ UNCHANGED <<peers, maxPeers, alive, handler, stab, walk0, fileVars, otherVars>>

\* Lines 258-261: one entry of the reply, and the recursive call.
WalkLoop(n) ==
    /\ n \in alive
    /\ gui[n].op = "walk"
    /\ LET st == gui[n].stack
           f == Top(st) IN
        /\ f.pc = "loop"
        /\ IF f.todo = {}
           THEN /\ gui' = [gui EXCEPT ![n] = Running(Ret(st))]
                /\ peers' = peers
           ELSE \E e \in f.todo :
                  LET st2 == SetTop(st, [f EXCEPT !.todo = f.todo \ {e}]) IN
                  IF e[1] # n
                  THEN Call(n, st2, e[2], f.hops - 1)
                  ELSE /\ gui' = [gui EXCEPT ![n] = Running(st2)]
                       /\ peers' = peers
    /\ ev' = NoEv
    /\ UNCHANGED <<maxPeers, alive, handler, stab, walk0, fileVars, otherVars>>

----------------------------------------------------------------------------
(* Gui.onRemove, frontend.py: QUIT to the selected peer, then removePeer *)

RemoveSend(n, peerid) ==
    /\ n \in alive
    /\ gui[n].op = "idle"
    /\ LET to == router(peers[n], peerid) IN
        IF to \in alive
        THEN /\ handler[to].pc = "idle"
             /\ peers' = [peers EXCEPT ![to] = removePeer(@, n)]
             /\ ev' = Ev("Quit", to, n, NoPeer, n \in getPeerIds(peers[to]),
                         <<QuitReply(peers[to], n)>>)
        ELSE /\ peers' = peers
             /\ ev' = NoEv
    /\ gui' = [gui EXCEPT ![n] = [op |-> "remove", stack |-> <<>>, rm |-> peerid]]
    /\ UNCHANGED <<maxPeers, alive, handler, stab, walk0, fileVars, otherVars>>

RemoveLocal(n) ==
    /\ n \in alive
    /\ gui[n].op = "remove"
    /\ peers' = [peers EXCEPT ![n] = removePeer(@, gui[n].rm)]
    /\ gui' = [gui EXCEPT ![n] = IdleGui]
    /\ ev' = Ev("removePeer", n, gui[n].rm, NoPeer, FALSE, <<>>)
    /\ UNCHANGED <<maxPeers, alive, handler, stab, walk0, fileVars, otherVars>>

----------------------------------------------------------------------------
(* checkLivePeers, peer.py *)

\* __runStabilizer: while not self.shutdown, the next call of the stabilizer.
SweepStart(n) ==
    /\ n \in alive
    /\ ~shutdown[n]
    /\ stab[n].pc = "idle"
    /\ stab' = [stab EXCEPT ![n] =
                  [IdleStab EXCEPT !.pc = "iter",
                                   !.size0 = numberOfPeers(peers[n])]]
    /\ ev' = NoEv
    /\ UNCHANGED <<peers, maxPeers, alive, handler, gui, walk0, fileVars, otherVars>>

\* for pid in self.peers: the next key, the end of the loop, or RuntimeError
\* when the dictionary changed size since the loop began.
SweepNext(n) ==
    /\ n \in alive
    /\ stab[n].pc = "iter"
    /\ LET s == stab[n]
           rest == getPeerIds(peers[n]) \ s.visited IN
        IF numberOfPeers(peers[n]) # s.size0
        THEN stab' = [stab EXCEPT ![n] = [IdleStab EXCEPT !.pc = "raised"]]
        ELSE IF rest = {}
        THEN stab' = [stab EXCEPT ![n].pc = "delete"]
        ELSE \E pid \in rest :
               stab' = [stab EXCEPT ![n].pc = "probe", ![n].cur = pid,
                                    ![n].visited = @ \cup {pid}]
    /\ ev' = NoEv
    /\ UNCHANGED <<peers, maxPeers, alive, handler, gui, walk0, fileVars, otherVars>>

\* Whether a connection to the address stored for pid can be opened.
Connects(dir, pid) == pid \in DOMAIN dir /\ dir[pid] \in alive

\* Lines 277-278 with the test inverted: the peers that answered are collected.
collectAnswered(toDelete, pid, isConnected) ==
    IF isConnected THEN toDelete \cup {pid} ELSE toDelete

\* Lines 270-278: toDelete after the try block for pid.
collect(toDelete, pid, isConnected) ==
    IF isConnected THEN toDelete ELSE toDelete \cup {pid}

SweepProbe(n) ==
    /\ n \in alive
    /\ stab[n].pc = "probe"
    /\ LET s == stab[n]
           isConnected == Connects(peers[n], s.cur) IN
        /\ stab' = [stab EXCEPT ![n].pc = "iter",
                                ![n].toDelete = collect(@, s.cur, isConnected),
                                ![n].passed = IF isConnected THEN @ \cup {s.cur}
                                              ELSE @ \ {s.cur}]
        /\ ev' = Ev("probe", n, s.cur, NoPeer, isConnected, <<>>)
    /\ UNCHANGED <<peers, maxPeers, alive, handler, gui, walk0, fileVars, otherVars>>

\* Lines 282-288, under peerLock.  The thread's fields stay as the sweep
\* left them until the next sweep starts.
SweepDelete(n) ==
    /\ n \in alive
    /\ stab[n].pc = "delete"
    /\ handler[n].pc = "idle"
    /\ peers' = [peers EXCEPT ![n] = Drop(@, stab[n].toDelete)]
    /\ stab' = [stab EXCEPT ![n].pc = "idle"]
    /\ ev' = Ev("sweep", n, NoPeer, NoPeer, FALSE, <<>>)
    /\ UNCHANGED <<maxPeers, alive, handler, gui, walk0, fileVars, otherVars>>

----------------------------------------------------------------------------
(* peerLock.  The steps that run between self.peerLock.acquire() and       *)
(* release(): the JOIN handler, the QUIT handler and the deletions of      *)
(* checkLivePeers.  buildPeers and onRemove never acquire the lock.        *)

UnderLock == {"JoinCheck", "JoinAdd", "Quit", "sweep"}

----------------------------------------------------------------------------
(* mainLoop, peer.py *)

\* What one call of s.accept() comes to.
Accepts == {"timeout", "error", "connection", "interrupt"}

\* The loop body with an except clause that ends the loop.
afterAcceptStops(outcome) == IF outcome = "error" THEN "exited" ELSE "test"

\* Lines 299-314: where the loop body leaves the thread.  Every outcome,
\* the handler thread started or an exception caught, leads to the test.
afterAccept(outcome) == "test"

\* while not self.shutdown, and s.close() after the loop.
LoopTest(n) ==
    /\ main[n].pc = "test"
    /\ main' = [main EXCEPT ![n].pc = IF shutdown[n] THEN "exited" ELSE "accept"]
    /\ alive' = IF shutdown[n] THEN alive \ {n} ELSE alive
    /\ ev' = Ev("mainLoop", n, NoPeer, NoPeer, shutdown[n], <<>>)
    /\ UNCHANGED <<peers, maxPeers, handler, gui, stab, walk0, fileVars,
                   wire, shutdown, threadVars>>

\* s.accept() returns a connection or raises: socket.timeout after two
\* seconds, another error, or KeyboardInterrupt, which sets the flag.
Accept(n, outcome) ==
    /\ main[n].pc = "accept"
    /\ main' = [main EXCEPT ![n].pc = afterAccept(outcome),
                            ![n].seen = @ \cup {outcome}]
    /\ alive' = IF afterAccept(outcome) = "exited" THEN alive \ {n} ELSE alive
    /\ shutdown' = IF outcome = "interrupt"
                   THEN [shutdown EXCEPT ![n] = TRUE] ELSE shutdown
    /\ ev' = Ev("accept", n, NoPeer, outcome, FALSE, <<>>)
    /\ UNCHANGED <<peers, maxPeers, handler, gui, stab, walk0, fileVars,
                   wire, threadVars>>

\* Gui.__onDestroy
OnDestroy(n) ==
    /\ ~shutdown[n]
    /\ shutdown' = [shutdown EXCEPT ![n] = TRUE]
    /\ ev' = Ev("onDestroy", n, NoPeer, NoPeer, FALSE, <<>>)
    /\ UNCHANGED <<peers, maxPeers, alive, handler, gui, stab, walk0,
                   fileVars, wire, main, threadVars>>

\* The steps of the mainLoop thread of node n.
MainLoop(n) == LoopTest(n) \/ \E o \in Accepts : Accept(n, o)

----------------------------------------------------------------------------
(* A node stops: its server socket no longer accepts connections. *)

Crash(n) ==
    /\ n \in alive
    /\ handler[n].pc = "idle"
    /\ alive' = alive \ {n}
    /\ ev' = NoEv
    /\ UNCHANGED <<peers, maxPeers, handler, gui, stab, walk0, fileVars, otherVars>>

----------------------------------------------------------------------------
(* The wire format of PeerConnection.  A text is a sequence of characters; *)
(* a character of Wide takes two bytes in UTF-8, any other one byte.  A    *)
(* byte is written <<c, k>>: the k-th byte of character c.                 *)

Wide == {"E"}

Space == " "

QUERY == "QUER"

QRESPONSE == "RESP"

FILEGET == "FGET"

\* None as the owner of a local file: falsy, as the empty string is.
Local == <<>>

\* The ttl of the QUERY frames onSearch sends.
SearchTTL == 4

Width(c) == IF c \in Wide THEN 2 ELSE 1

RECURSIVE encode(_)
\* str.encode(): the UTF-8 bytes of a text.
encode(s) ==
    IF s = <<>> THEN <<>>
    ELSE [k \in 1..Width(Head(s)) |-> <<Head(s), k>>] \o encode(Tail(s))

\* bytes.decode() raised UnicodeDecodeError.
Bad == <<"UnicodeDecodeError">>

RECURSIVE decode(_)
\* bytes.decode(): the text of a byte string, or Bad when a character is
\* incomplete.
decode(bs) ==
    IF bs = <<>> THEN <<>>
    ELSE LET c == Head(bs)[1]
             w == Width(c)
         IN  IF /\ Len(bs) >= w
                /\ \A k \in 1..w : bs[k] = <<c, k>>
             THEN LET rest == decode(SubSeq(bs, w + 1, Len(bs)))
                  IN  IF rest = Bad THEN Bad ELSE <<c>> \o rest
             ELSE Bad

\* __makemsg: the length field counts the characters of the text, and
\* struct.pack cuts the encoded text to that many bytes.
makemsg(msgtype, msgdata) ==
    LET msglen == Len(msgdata)
        bytes == encode(msgdata)
    IN  [type |-> msgtype, len |-> msglen,
         payload |-> SubSeq(bytes, 1, msglen)]

NoMsg == [type |-> "None", data |-> <<>>]

\* recvData never returned: the sender keeps the connection open and sends
\* nothing more.
Blocked == [type |-> "blocked", data |-> <<>>]

\* recvData of one frame that is the last on its connection.  closed: the
\* sender closes after the frame (a handler's reply); otherwise the sender
\* waits for a reply (a request).  The first read returns the len bytes of
\* the payload; the loop goes on while the text has fewer than len characters.
recvData(frame, closed) ==
    LET msg == decode(frame.payload)
    IN  IF msg = Bad THEN NoMsg
        ELSE IF Len(msg) = frame.len
             THEN [type |-> frame.type, data |-> msg]
             ELSE IF closed THEN NoMsg ELSE Blocked

RECURSIVE split(_)
\* str.split(): the maximal runs of characters other than whitespace.
split(s) ==
    IF s = <<>> THEN <<>>
    ELSE IF Head(s) = Space THEN split(Tail(s))
    ELSE LET n == CHOOSE k \in 1..Len(s) :
                     /\ \A i \in 1..k : s[i] # Space
                     /\ k = Len(s) \/ s[k + 1] = Space
         IN  <<SubSeq(s, 1, n)>> \o split(SubSeq(s, n + 1, Len(s)))

\* f"{a} {b} {c}": the fields with one space between them.
format(fields) ==
    IF Len(fields) = 1 THEN fields[1]
    ELSE IF Len(fields) = 2 THEN fields[1] \o <<Space>> \o fields[2]
    ELSE fields[1] \o <<Space>> \o fields[2] \o <<Space>> \o fields[3]

Digits == <<"0", "1", "2", "3", "4", "5", "6", "7", "8", "9">>

\* str(n) of a small integer.
str(n) == IF n < 0 THEN <<"-", Digits[1 - n]>> ELSE <<Digits[n + 1]>>

IsInt(s) ==
    \/ Len(s) = 1 /\ \E d \in 1..10 : Digits[d] = s[1]
    \/ Len(s) = 2 /\ s[1] = "-" /\ \E d \in 1..10 : Digits[d] = s[2]

\* int(s) of a text str(n) produced.
int(s) ==
    IF Len(s) = 1 THEN (CHOOSE d \in 1..10 : Digits[d] = s[1]) - 1
    ELSE 1 - (CHOOSE d \in 1..10 : Digits[d] = s[2])

\* A PeerID as text, and the address host:port it names.
myId(n) == <<n>>

IsId(s) == Len(s) = 1 /\ s[1] \in Nodes

Address(peerid) == peerid[1]

----------------------------------------------------------------------------
(* JOIN handler on the payload as text, backend.py __handleInsertPeer *)

\* The key a text names: the id of a node, or a key no directory holds.
Key(s) == IF Len(s) = 1 /\ s[1] \in Nodes THEN s[1] ELSE NoPeer

\* A JOIN frame with the text data reaches node n from any client.  A
\* payload of three fields with a numeric port is handled as EnvJoin and
\* JoinAdd handle it.  Any other raises: data.split() when the fields are
\* not three, int(port) in addPeer when the handler gets that far.
EnvJoinText(n, data) ==
    LET f == split(data) IN
    IF Len(f) = 3 /\ IsInt(f[3])
    THEN EnvJoin(n, Key(f[1]), Key(f[2]))
    ELSE /\ n \in alive
         /\ handler[n].pc = "idle"
         /\ LET jd == IF Len(f) # 3 THEN "args"
                      ELSE JoinDecision(peers[n], n, Key(f[1]))
                d == IF jd = "add" THEN "args" ELSE jd
            IN  ev' = Ev("JoinText", n, NoPeer, data, FALSE, <<JoinError(d)>>)
         /\ UNCHANGED <<peers, maxPeers, alive, handler, gui, stab, walk0,
                        fileVars, otherVars>>

----------------------------------------------------------------------------
(* One message through a PeerConnection: sendData at one end, recvData at  *)
(* the other.                                                              *)

\* sendData(msgtype, msgdata): the frame is written to the connection.
SendData ==
    /\ wire.pc = "new"
    /\ wire' = [wire EXCEPT !.pc = "sent",
                            !.frame = makemsg(wire.type, wire.data)]
    /\ ev' = Ev("sendData", NoPeer, NoPeer, NoPeer, TRUE, <<>>)
    /\ UNCHANGED <<peers, maxPeers, alive, handler, gui, stab, walk0,
                   fileVars, loopVars, threadVars>>

\* recvData() of the frame; closed: the sender has closed the connection
\* after it.
RecvData(closed) ==
    /\ wire.pc = "sent"
    /\ wire' = [wire EXCEPT !.pc = "received",
                            !.got = recvData(wire.frame, closed)]
    /\ ev' = Ev("recvData", NoPeer, NoPeer, NoPeer, closed, <<>>)
    /\ UNCHANGED <<peers, maxPeers, alive, handler, gui, stab, walk0,
                   fileVars, loopVars, threadVars>>

----------------------------------------------------------------------------
(* The file index: MyPeer.files, a dict in insertion order. *)

Entry(name, owner) == [name |-> name, owner |-> owner]

FileNames(fs) == {fs[i].name : i \in 1..Len(fs)}

Owner(fs, name) ==
    fs[CHOOSE i \in 1..Len(fs) : fs[i].name = name].owner

\* files[name] = owner: a known name keeps its place.
SetFile(fs, name, owner) ==
    IF name \in FileNames(fs)
    THEN [i \in 1..Len(fs) |->
            IF fs[i].name = name THEN Entry(name, owner) ELSE fs[i]]
    ELSE Append(fs, Entry(name, owner))

addLocalFile(fs, filename) == SetFile(fs, filename, Local)

RECURSIVE Contains(_, _)
\* key in fname: key is a substring of fname.
Contains(fname, key) ==
    \/ Len(key) <= Len(fname) /\ SubSeq(fname, 1, Len(key)) = key
    \/ fname # <<>> /\ Contains(Tail(fname), key)

Matches(fs, key) == {i \in 1..Len(fs) : Contains(fs[i].name, key)}

\* onAdd
AddLocalFile(n, filename) ==
    /\ n \in alive
    /\ files' = [files EXCEPT ![n] = addLocalFile(@, filename)]
    /\ ev' = Ev("onAdd", n, NoPeer, filename, FALSE, <<>>)
    /\ UNCHANGED <<peers, maxPeers, alive, handler, gui, stab, walk0,
                   disk, queries, search0, otherVars>>

----------------------------------------------------------------------------
(* QUERY and QRESPONSE *)

\* A __processQuery thread of node at.  hop is not a variable of the code:
\* the number of QUERY frames sent on the way from the searching node.
Query(at, peerid, key, ttl, hop) ==
    [at |-> at, peerid |-> peerid, key |-> key, ttl |-> ttl, hop |-> hop]

\* __handleQuery: the thread it starts for a QUERY frame that arrived at
\* node at, if any.
handleQuery(at, msg, hop) ==
    IF msg.type # QUERY THEN {}
    ELSE LET f == split(msg.data)
         IN  IF Len(f) = 3 /\ IsInt(f[3])
             THEN {Query(at, f[1], f[2], int(f[3]), hop)}
             ELSE {}

\* __handleQuery: the frame it sends back.  The acknowledgement goes out as
\* soon as the payload has three fields, before int(ttl) is evaluated.
QueryReply(data) ==
    IF Len(split(data)) = 3 THEN <<REPLY, "Query ACK">>
    ELSE <<ERROR, "Query: incorrect arguments">>

\* A QUERY frame with the text data reaches node n from any client.
EnvQuery(n, data) ==
    /\ n \in alive
    /\ LET started == handleQuery(n, [type |-> QUERY, data |-> data], 1) IN
        /\ queries' = queries \cup started
        /\ ev' = Ev("handleQuery", n, NoPeer, data, started # {},
                    <<QueryReply(data)>>)
    /\ UNCHANGED <<peers, maxPeers, alive, handler, gui, stab, walk0,
                   files, disk, search0, otherVars>>

\* __handleQResponse
handleQResponse(fs, data) ==
    LET f == split(data)
    IN  IF Len(f) # 2 THEN fs
        ELSE IF f[1] \in FileNames(fs) THEN fs
        ELSE SetFile(fs, f[1], f[2])

\* The most __handleQResponse threads between their test and their store.
MaxStoring == 2

\* A __handleQResponse thread of node n, for a QRESPONSE with the text
\* data from any client, parses it and tests fname in self.files.  The
\* handler threads of a node share self.files without a lock.
ResponseCheck(n, data) ==
    /\ n \in alive
    /\ Cardinality(storing) < MaxStoring
    /\ LET f == split(data)
           absent == Len(f) = 2 /\ f[1] \notin FileNames(files[n])
       IN  /\ storing' = IF absent
                         THEN storing \cup {[n |-> n, name |-> f[1],
                                             owner |-> f[2]]}
                         ELSE storing
           /\ ev' = Ev("handleQResponse", n, NoPeer, data, absent, <<>>)
    /\ UNCHANGED <<peers, maxPeers, alive, handler, gui, stab, walk0,
                   fileVars, wire, loopVars, iter, conn>>

\* The thread stores: self.files[fname] = fpeerid.
ResponseStore(t) ==
    /\ t \in storing
    /\ storing' = storing \ {t}
    /\ files' = [files EXCEPT ![t.n] = SetFile(@, t.name, t.owner)]
    /\ ev' = Ev("storeFile", t.n, NoPeer, t.name, TRUE, <<>>)
    /\ UNCHANGED <<peers, maxPeers, alive, handler, gui, stab, walk0,
                   disk, queries, search0, wire, loopVars, iter, conn>>

\* The sendToPeer(p, QUERY, msgdata) calls of a loop over the directory.
ToAll(dir, msgdata) == {<<p, msgdata>> : p \in getPeerIds(dir)}

\* The __processQuery threads that the calls start at the nodes they reach.
Started(dir, calls, hop) ==
    UNION {handleQuery(dir[c[1]], recvData(makemsg(QUERY, c[2]), FALSE), hop) :
              c \in {d \in calls : dir[d[1]] \in alive}}

\* onSearch: the GUI thread sends the QUERY to every directory entry in
\* turn and waits for each acknowledgement.
onSearch(n, key) ==
    /\ n \in alive
    /\ gui[n].op = "idle"
    /\ LET msgdata == format(<<myId(n), key, str(SearchTTL)>>)
           hangs == /\ recvData(makemsg(QUERY, msgdata), FALSE) = Blocked
                    /\ \E p \in getPeerIds(peers[n]) : peers[n][p] \in alive
           calls == ToAll(peers[n], msgdata)
       IN  /\ queries' = queries \cup Started(peers[n], calls, 1)
           /\ gui' = IF hangs THEN [gui EXCEPT ![n].op = "blocked"] ELSE gui
           /\ ev' = [Ev("onSearch", n, NoPeer, key, hangs, <<>>)
                        EXCEPT !.fwd = calls]
    /\ UNCHANGED <<peers, maxPeers, alive, handler, stab, walk0, files, disk, otherVars>>

Search(n, key) == onSearch(n, key) /\ UNCHANGED search0

FirstSearch(n, key) ==
    /\ search0 = NoSearch
    /\ onSearch(n, key)
    /\ search0' = [key |-> key, files |-> files]

\* The QRESPONSE frames one run of __processQuery sends, in order.
ResponsesAll(fs, key, me) ==
    [i \in 1..Cardinality(Matches(fs, key)) |->
        LET m == CHOOSE j \in Matches(fs, key) :
                    Cardinality({k \in Matches(fs, key) : k < j}) = i - 1
        IN  format(<<fs[m].name,
                     IF fs[m].owner = Local THEN myId(me) ELSE fs[m].owner>>)]

Responses(fs, key, me) ==
    IF Matches(fs, key) = {} THEN <<>>
    ELSE LET m == CHOOSE i \in Matches(fs, key) :
                     \A j \in Matches(fs, key) : i <= j
             fpeerid == IF fs[m].owner = Local THEN myId(me) ELSE fs[m].owner
         IN  <<format(<<fs[m].name, fpeerid>>)>>

ForwardsAtZero(q) ==
    IF q.ttl >= 0
    THEN ToAll(peers[q.at], format(<<q.peerid, q.key, str(q.ttl - 1)>>))
    ELSE {}

\* The sendToPeer calls of the forwarding loop of __processQuery.
Forwards(q) ==
    IF q.ttl > 0
    THEN ToAll(peers[q.at], format(<<q.peerid, q.key, str(q.ttl - 1)>>))
    ELSE {}

RECURSIVE Deliver(_, _, _)
\* connectAndSend of each QRESPONSE to the node at dest, whose handler
\* thread records it.
Deliver(fs, dest, resp) ==
    IF resp = <<>> THEN fs
    ELSE LET msg == recvData(makemsg(QRESPONSE, Head(resp)), FALSE)
             got == IF dest \in alive /\ msg.type = QRESPONSE
                    THEN [fs EXCEPT ![dest] = handleQResponse(@, msg.data)]
                    ELSE fs
         IN  Deliver(got, dest, Tail(resp))

\* One __processQuery thread runs.  Threads with the same arguments at the
\* same node are kept once in queries.
ProcessQuery(q) ==
    /\ q \in queries
    /\ q.at \in alive
    /\ LET resp == Responses(files[q.at], q.key, q.at)
           fwd == IF resp = <<>> THEN Forwards(q) ELSE {}
       IN  /\ files' = IF resp # <<>> /\ IsId(q.peerid)
                       THEN Deliver(files, Address(q.peerid), resp)
                       ELSE files
           /\ queries' = (queries \ {q})
                               \cup Started(peers[q.at], fwd, q.hop + 1)
           /\ ev' = [Ev("processQuery", q.at, q.peerid, q.key, q.ttl, resp)
                        EXCEPT !.fwd = fwd, !.hop = q.hop]
    /\ UNCHANGED <<peers, maxPeers, alive, handler, gui, stab, walk0,
                   disk, search0, otherVars>>

----------------------------------------------------------------------------
(* The forwarding loop of __processQuery, lines 153-156, step by step: the  *)
(* thread waits for the acknowledgement of each QUERY it sends, and other  *)
(* threads change the directory meanwhile.                                 *)

\* The scan found no match and ttl > 0: for nextpid in self.getPeerIds().
ForwardStart(q) ==
    /\ q \in queries
    /\ q.at \in alive
    /\ iter.pc = "none"
    /\ Matches(files[q.at], q.key) = {}
    /\ q.ttl > 0
    /\ queries' = queries \ {q}
    /\ iter' = [NoIter EXCEPT !.pc = "iter", !.kind = "forward", !.n = q.at,
                              !.size0 = numberOfPeers(peers[q.at]),
                              !.dir0 = peers[q.at],
                              !.data = format(<<q.peerid, q.key,
                                                str(q.ttl - 1)>>),
                              !.hop = q.hop]
    /\ ev' = Ev("forward", q.at, q.peerid, q.key, TRUE, <<>>)
    /\ UNCHANGED <<peers, maxPeers, alive, handler, gui, stab, walk0,
                   files, disk, search0, wire, loopVars, storing, conn>>

\* The next key of the view, the end of the loop, or RuntimeError when the
\* dictionary changed size since the loop began; then sendToPeer.  out is
\* the ids the QUERY was sent to.
ForwardNext ==
    /\ iter.pc = "iter"
    /\ iter.kind = "forward"
    /\ iter.n \in alive
    /\ LET n == iter.n
           rest == getPeerIds(peers[n]) \ iter.visited IN
        IF numberOfPeers(peers[n]) # iter.size0
        THEN /\ iter' = [iter EXCEPT !.pc = "raised"]
             /\ queries' = queries
        ELSE IF rest = {}
        THEN /\ iter' = [iter EXCEPT !.pc = "done"]
             /\ queries' = queries
        ELSE \E pid \in rest :
               /\ iter' = [iter EXCEPT !.visited = @ \cup {pid},
                                       !.out = Append(@, pid)]
               /\ queries' = queries \cup
                     Started(peers[n], {<<pid, iter.data>>}, iter.hop + 1)
    /\ ev' = NoEv
    /\ UNCHANGED <<peers, maxPeers, alive, handler, gui, stab, walk0,
                   files, disk, search0, wire, loopVars, storing, conn>>

\* The __processQuery thread is over.
ForwardEnd ==
    /\ iter.kind = "forward"
    /\ iter.pc \in {"done", "raised"}
    /\ iter' = NoIter
    /\ ev' = NoEv
    /\ UNCHANGED <<peers, maxPeers, alive, handler, gui, stab, walk0,
                   fileVars, wire, loopVars, storing, conn>>

----------------------------------------------------------------------------
(* LIST handler, backend.py __handleListPeers, step by step: it holds the  *)
(* lock from the count to the last entry.                                  *)

\* Lines 96-98: acquire, and the frame with the count.
ListStart(n) ==
    /\ n \in alive
    /\ handler[n].pc = "idle"
    /\ iter.pc = "none"
    /\ handler' = [handler EXCEPT ![n] = [IdleHandler EXCEPT !.pc = "list"]]
    /\ iter' = [NoIter EXCEPT !.pc = "iter", !.kind = "list", !.n = n,
                              !.size0 = numberOfPeers(peers[n]),
                              !.dir0 = peers[n],
                              !.count = numberOfPeers(peers[n])]
    /\ ev' = NoEv
    /\ UNCHANGED <<peers, maxPeers, alive, gui, stab, walk0, fileVars,
                   wire, loopVars, storing, conn>>

\* Lines 99-101: the next key of the view and its frame 'id host port', the
\* end of the loop, or RuntimeError when the dictionary changed size since
\* the loop began; line 104 releases the lock in the last two cases.
ListNext ==
    /\ iter.pc = "iter"
    /\ iter.kind = "list"
    /\ iter.n \in alive
    /\ LET n == iter.n
           rest == getPeerIds(peers[n]) \ iter.visited IN
        IF numberOfPeers(peers[n]) # iter.size0
        THEN /\ iter' = [iter EXCEPT !.pc = "raised"]
             /\ handler' = [handler EXCEPT ![n] = IdleHandler]
        ELSE IF rest = {}
        THEN /\ iter' = [iter EXCEPT !.pc = "done"]
             /\ handler' = [handler EXCEPT ![n] = IdleHandler]
        ELSE \E pid \in rest :
               /\ iter' = [iter EXCEPT !.visited = @ \cup {pid},
                                       !.out = Append(@, <<pid, peers[n][pid]>>)]
               /\ handler' = handler
    /\ ev' = NoEv
    /\ UNCHANGED <<peers, maxPeers, alive, gui, stab, walk0, fileVars,
                   wire, loopVars, storing, conn>>

\* __handlePeer closes the connection: the reply is over.
ListEnd ==
    /\ iter.kind = "list"
    /\ iter.pc \in {"done", "raised"}
    /\ iter' = NoIter
    /\ ev' = NoEv
    /\ UNCHANGED <<peers, maxPeers, alive, handler, gui, stab, walk0,
                   fileVars, wire, loopVars, storing, conn>>

----------------------------------------------------------------------------
(* __handlePeer, peer.py: the thread mainLoop starts for an accepted       *)
(* connection.  conn.type and conn.data are the frame the client sent;     *)
(* "None" stands for no frame.                                             *)

\* The keys of self.handlers.
Handlers == {"LIST", "JOIN", "NAME", QUERY, QRESPONSE, FILEGET, "QUIT"}

\* msgtype.upper() of the types that arrive here.
upper(msgtype) ==
    IF msgtype = "quer" THEN QUERY
    ELSE IF msgtype = "Quit" THEN "QUIT"
    ELSE msgtype

\* The client resets the connection: from then on getpeername() raises
\* OSError (the socket is not connected) and a read fails.
Reset ==
    /\ conn.pc \in {"accepted", "recv", "dispatch", "disconnect"}
    /\ ~conn.reset
    /\ conn' = [conn EXCEPT !.reset = TRUE]
    /\ ev' = NoEv
    /\ UNCHANGED <<peers, maxPeers, alive, handler, gui, stab, walk0,
                   fileVars, wire, loopVars, storing, iter>>

\* Lines 73-77: clientSock.getpeername(), outside the try block; the
\* PeerConnection.  An exception here ends the thread.
PeerName ==
    /\ conn.pc = "accepted"
    /\ conn' = [conn EXCEPT !.pc = IF conn.reset THEN "died" ELSE "recv"]
    /\ ev' = NoEv
    /\ UNCHANGED <<peers, maxPeers, alive, handler, gui, stab, walk0,
                   fileVars, wire, loopVars, storing, iter>>

\* Line 80: peerConn.recvData().  On a connection that was reset the read
\* returns what had arrived before, or fails: (None, None).
Recv ==
    /\ conn.pc = "recv"
    /\ \E msgtype \in {conn.type, "None"} :
          /\ conn.reset \/ msgtype = conn.type
          /\ conn' = [conn EXCEPT !.pc = "dispatch", !.reads = @ + 1,
                                  !.msgtype = msgtype]
    /\ ev' = NoEv
    /\ UNCHANGED <<peers, maxPeers, alive, handler, gui, stab, walk0,
                   fileVars, wire, loopVars, storing, iter>>

\* Lines 81-92: the test of the type, the handler, and the except clause
\* that swallows what the handler raises.  __handlePeerName replies the id;
\* __handleQuit and __handleQuery as in EnvQuit and EnvQuery, the latter
\* raising when it starts no thread.
Dispatch ==
    /\ conn.pc = "dispatch"
    /\ conn.n \in alive
    /\ LET n == conn.n
           msgtype == IF conn.msgtype = "None" THEN "None"
                      ELSE upper(conn.msgtype)
           pid == Key(conn.data)
           started == handleQuery(n, [type |-> QUERY, data |-> conn.data], 1)
       IN  IF msgtype \notin Handlers
           THEN /\ conn' = [conn EXCEPT !.pc = "disconnect"]
                /\ ev' = NoEv
                /\ UNCHANGED <<peers, queries>>
           ELSE IF msgtype = "QUIT"
           THEN /\ handler[n].pc = "idle"
                /\ conn' = [conn EXCEPT
                              !.pc = "disconnect",
                              !.invoked = Append(@, msgtype),
                              !.replies = <<QuitReply(peers[n], pid)>>]
                /\ peers' = [peers EXCEPT ![n] = removePeer(@, pid)]
                /\ ev' = Ev("Quit", n, pid, NoPeer,
                            pid \in getPeerIds(peers[n]),
                            <<QuitReply(peers[n], pid)>>)
                /\ UNCHANGED queries
           ELSE IF msgtype = QUERY
           THEN /\ conn' = [conn EXCEPT
                              !.pc = "disconnect",
                              !.invoked = Append(@, msgtype),
                              !.replies = <<QueryReply(conn.data)>>,
                              !.raised = started = {}]
                /\ queries' = queries \cup started
                /\ ev' = Ev("handleQuery", n, NoPeer, conn.data,
                            started # {}, <<QueryReply(conn.data)>>)
                /\ UNCHANGED peers
           ELSE /\ conn' = [conn EXCEPT
                              !.pc = "disconnect",
                              !.invoked = Append(@, msgtype),
                              !.replies = << <<REPLY, myId(n)>> >>]
                /\ ev' = Ev("handleName", n, NoPeer, NoPeer, TRUE,
                            << <<REPLY, myId(n)>> >>)
                /\ UNCHANGED <<peers, queries>>
    /\ UNCHANGED <<maxPeers, alive, handler, gui, stab, walk0, files, disk,
                   search0, wire, loopVars, storing, iter>>

\* Lines 94-95: clientSock.getpeername() once more, outside the try block,
\* then peerConn.close().
Disconnect ==
    /\ conn.pc = "disconnect"
    /\ conn' = IF conn.reset THEN [conn EXCEPT !.pc = "died"]
               ELSE [conn EXCEPT !.pc = "closed", !.open = FALSE]
    /\ ev' = NoEv
    /\ UNCHANGED <<peers, maxPeers, alive, handler, gui, stab, walk0,
                   fileVars, wire, loopVars, storing, iter>>

----------------------------------------------------------------------------
(* FGET *)

\* The texts of the error replies, each written as one one-byte character.
NotFound == <<"File not found">>

ReadError == <<"Error reading file">>

\* __handleFileGet: the reply handed to sendData.  open() fails when the
\* working directory holds no file of that name.
handleFileGet(fs, dsk, fname) ==
    IF fname \notin FileNames(fs) THEN [type |-> ERROR, data |-> NotFound]
    ELSE IF fname \notin DOMAIN dsk THEN [type |-> ERROR, data |-> ReadError]
    ELSE [type |-> REPLY, data |-> dsk[fname]]

\* onFetch on entry i of the file list, shown as fname:host:port when the
\* owner is another node.  The request reaches the owner's handler, whose
\* one reply frame is the last on the connection.
onFetch(n, i) ==
    /\ n \in alive
    /\ gui[n].op = "idle"
    /\ i \in 1..Len(files[n])
    /\ files[n][i].owner # Local
    /\ IsId(files[n][i].owner)
    /\ LET fname == files[n][i].name
           a == Address(files[n][i].owner)
           req == IF a \in alive
                  THEN recvData(makemsg(FILEGET, fname), FALSE)
                  ELSE NoMsg
           reply == IF req.type = FILEGET
                    THEN <<handleFileGet(files[a], disk[a], req.data)>>
                    ELSE <<>>
           frames == [k \in 1..Len(reply) |->
                        makemsg(reply[k].type, reply[k].data)]
           got == IF frames = <<>> THEN NoMsg ELSE recvData(frames[1], TRUE)
           resp == IF got = NoMsg THEN <<>> ELSE <<got>>
           stored == resp # <<>> /\ resp[1].type = REPLY
       IN  /\ disk' = IF stored
                      THEN [disk EXCEPT ![n] = Put(@, fname, resp[1].data)]
                      ELSE disk
           /\ files' = IF stored
                       THEN [files EXCEPT ![n] = SetFile(@, fname, Local)]
                       ELSE files
           /\ gui' = IF req = Blocked
                     THEN [gui EXCEPT ![n].op = "blocked"] ELSE gui
           /\ ev' = [Ev("onFetch", n, a, fname, stored, resp)
                        EXCEPT !.fwd = frames]
    /\ UNCHANGED <<peers, maxPeers, alive, handler, stab, walk0,
                   queries, search0, otherVars>>

----------------------------------------------------------------------------

\* The directories a serving node can hold before the observed node starts:
\* other nodes' ids at their own addresses, within the capacity.
Directories(n) ==
    {[p \in ks |-> p] : ks \in {k \in SUBSET (Nodes \ {n}) :
                                   maxPeers = 0 \/ Cardinality(k) <= maxPeers}}

Init ==
    /\ maxPeers \in 0..MaxCap
    /\ peers \in {d \in [Nodes -> UNION {Directories(n) : n \in Nodes}] :
                    /\ d[Observed] = Empty
                    /\ \A n \in Nodes : d[n] \in Directories(n)}
    /\ alive = Nodes
    /\ handler = [n \in Nodes |-> IdleHandler]
    /\ gui = [n \in Nodes |-> IdleGui]
    /\ stab = [n \in Nodes |-> IdleStab]
    /\ ev = NoEv
    /\ walk0 = NoWalk
    /\ files = [n \in Nodes |-> <<>>]
    /\ disk = [n \in Nodes |-> Empty]
    /\ queries = {}
    /\ search0 = NoSearch
    /\ wire = NoWire
    /\ shutdown = [n \in Nodes |-> FALSE]
    /\ main = [n \in Nodes |-> Listening]
    /\ storing = {}
    /\ iter = NoIter
    /\ conn = NoConn

Next ==
    \/ \E p \in Nodes, a \in Nodes : EnvJoin(Observed, p, a)
    \/ \E n \in Nodes : JoinAdd(n)
    \/ \E a \in Nodes : BuildPeers(Observed, a)
    \/ WalkName(Observed)
    \/ WalkJoin(Observed)
    \/ WalkJoined(Observed)
    \/ WalkAddCheck(Observed)
    \/ WalkAddStore(Observed)
    \/ WalkList(Observed)
    \/ WalkLoop(Observed)
    \/ \E n \in Nodes \ {Observed} : Crash(n)

Spec == Init /\ [][Next]_vars

----------------------------------------------------------------------------
(* The stabilizer of the observed node beside its JOIN and QUIT handlers   *)
(* and its onRemove.                                                       *)

NextSweep ==
    \/ \E p \in Nodes, a \in Nodes : EnvJoin(Observed, p, a)
    \/ JoinAdd(Observed)
    \/ \E p \in Nodes : EnvQuit(Observed, p)
    \/ \E p \in Nodes : RemoveSend(Observed, p)
    \/ RemoveLocal(Observed)
    \/ SweepStart(Observed)
    \/ SweepNext(Observed)
    \/ SweepProbe(Observed)
    \/ SweepDelete(Observed)
    \/ \E n \in Nodes \ {Observed} : Crash(n)

\* Every node as its constructor leaves it.
InitSweep == Init /\ peers = [n \in Nodes |-> Empty]

SpecSweep == InitSweep /\ [][NextSweep]_vars

----------------------------------------------------------------------------
(* The directory of the observed node under calls of addPeer and QUITs.    *)

NextAdd ==
    \/ \E p \in Nodes, a \in Nodes : AddPeer(Observed, p, a)
    \/ \E p \in Nodes : EnvQuit(Observed, p)

SpecAdd == Init /\ [][NextAdd]_vars

----------------------------------------------------------------------------
(* The JOIN and QUERY handlers of the observed node on payloads of any     *)
(* shape.                                                                  *)

\* Port and ttl fields: a number and a text that is none.
Numerals == {<<"1">>, <<"a">>}

JoinTexts ==
    {format(<<myId(p), myId(a), t>>) : p \in Nodes, a \in {"B"}, t \in Numerals}
    \cup {format(<<myId(p), myId("B")>>) : p \in Nodes}

QueryTexts ==
    {format(<<myId(p), <<"b">>, t>>) : p \in {"B", "C"}, t \in Numerals}
    \cup {format(<<myId("B"), <<"b">>>>), <<>>}

NextText ==
    \/ \E d \in JoinTexts : EnvJoinText(Observed, d)
    \/ JoinAdd(Observed)
    \/ \E p \in Nodes : EnvQuit(Observed, p)
    \/ \E d \in QueryTexts : EnvQuery(Observed, d)

SpecText == Init /\ [][NextText]_vars

----------------------------------------------------------------------------
(* The mainLoop thread of the observed node beside its handler threads,    *)
(* some of which fail, and the closing of its window.  accept() returns    *)
(* within its timeout and the thread is scheduled: weak fairness.          *)

NextMain ==
    \/ LoopTest(Observed)
    \/ \E o \in Accepts : Accept(Observed, o)
    \/ OnDestroy(Observed)
    \/ \E d \in QueryTexts : EnvQuery(Observed, d)
    \/ \E d \in JoinTexts : EnvJoinText(Observed, d)
    \/ JoinAdd(Observed)

InitMain == Init /\ maxPeers = 0 /\ peers = [n \in Nodes |-> Empty]

SpecMain == InitMain /\ [][NextMain]_vars /\ WF_vars(MainLoop(Observed))

----------------------------------------------------------------------------
(* One buildPeers call of the observed node in a network where no other    *)
(* request is made; the contacted nodes may stop.                          *)

NextWalk ==
    \/ \E a \in Nodes : FirstBuildPeers(Observed, a)
    \/ \E n \in Nodes : JoinAdd(n)
    \/ WalkName(Observed)
    \/ WalkJoin(Observed)
    \/ WalkJoined(Observed)
    \/ WalkAddCheck(Observed)
    \/ WalkAddStore(Observed)
    \/ WalkList(Observed)
    \/ WalkLoop(Observed)
    \/ \E n \in Nodes \ {Observed} : Crash(n)

SpecWalk == Init /\ [][NextWalk]_vars

----------------------------------------------------------------------------
(* Searches of the observed node in a network whose directories do not     *)
(* change, while files are registered.                                     *)

\* The file names and search keys that are typed in.
Names == {<<"b">>, <<"b", "E">>}

Keys == {<<"b">>, <<"E">>}

\* Most entries in the file indices of the network when a file is registered.
MaxFiles == 2

Registered == Len(files["A"]) + Len(files["B"]) + Len(files["C"])

\* Most directory entries in the network.
MaxLinks == 3

Links(d) ==
    Cardinality({pair \in Nodes \X Nodes : pair[2] \in getPeerIds(d[pair[1]])})

\* Every node has joined: any directories without a capacity.
Joined ==
    /\ maxPeers = 0
    /\ peers \in {d \in [Nodes -> UNION {Directories(n) : n \in Nodes}] :
                    /\ \A n \in Nodes : d[n] \in Directories(n)
                    /\ Links(d) <= MaxLinks}
    /\ alive = Nodes
    /\ handler = [n \in Nodes |-> IdleHandler]
    /\ gui = [n \in Nodes |-> IdleGui]
    /\ stab = [n \in Nodes |-> IdleStab]
    /\ ev = NoEv
    /\ walk0 = NoWalk
    /\ queries = {}
    /\ search0 = NoSearch
    /\ wire = NoWire
    /\ shutdown = [n \in Nodes |-> FALSE]
    /\ main = [n \in Nodes |-> Listening]
    /\ storing = {}
    /\ iter = NoIter
    /\ conn = NoConn

InitQuery ==
    /\ Joined
    /\ files = [n \in Nodes |-> <<>>]
    /\ disk = [n \in Nodes |-> Empty]

NextQuery ==
    \/ \E n \in Nodes, f \in Names :
          Registered < MaxFiles /\ AddLocalFile(n, f)
    \/ \E k \in Keys : Search(Observed, k)
    \/ \E q \in queries : ProcessQuery(q)

SpecQuery == InitQuery /\ [][NextQuery]_vars

----------------------------------------------------------------------------
(* One accepted connection of the observed node. *)

\* The frames a client sends, and "None": it sends nothing and closes.
Requests ==
    {[type |-> t, data |-> d] : t \in {QUERY, "quer"}, d \in QueryTexts}
    \cup {[type |-> t, data |-> myId(p)] :
             t \in {"QUIT", "Quit", "NAME", "PING", "None"},
             p \in {"B", "C"}}

InitPeer ==
    /\ maxPeers = 0
    /\ peers \in {[n \in Nodes |-> IF n = Observed THEN [p \in ks |-> p]
                                   ELSE Empty] : ks \in SUBSET {"B", "C"}}
    /\ alive = Nodes
    /\ handler = [n \in Nodes |-> IdleHandler]
    /\ gui = [n \in Nodes |-> IdleGui]
    /\ stab = [n \in Nodes |-> IdleStab]
    /\ ev = NoEv
    /\ walk0 = NoWalk
    /\ files = [n \in Nodes |-> <<>>]
    /\ disk = [n \in Nodes |-> Empty]
    /\ queries = {}
    /\ search0 = NoSearch
    /\ wire = NoWire
    /\ shutdown = [n \in Nodes |-> FALSE]
    /\ main = [n \in Nodes |-> Listening]
    /\ storing = {}
    /\ iter = NoIter
    /\ conn \in {[NoConn EXCEPT !.pc = "accepted", !.n = Observed,
                                 !.type = r.type, !.data = r.data,
                                 !.open = TRUE] : r \in Requests}

NextPeer ==
    \/ Reset
    \/ PeerName
    \/ Recv
    \/ Dispatch
    \/ Disconnect

SpecPeer == InitPeer /\ [][NextPeer]_vars

----------------------------------------------------------------------------
(* The LIST handler of the observed node beside its JOIN and QUIT          *)
(* handlers and its onRemove.                                              *)

NextList ==
    \/ \E p \in Nodes : EnvJoin(Observed, p, p)
    \/ JoinAdd(Observed)
    \/ \E p \in Nodes : EnvQuit(Observed, p)
    \/ \E p \in Nodes : RemoveSend(Observed, p)
    \/ RemoveLocal(Observed)
    \/ ListStart(Observed)
    \/ ListNext
    \/ ListEnd

SpecList == InitSweep /\ [][NextList]_vars

----------------------------------------------------------------------------
(* QUERYs at the observed node, whose forwarding loop runs beside its JOIN *)
(* and QUIT handlers.                                                      *)

\* The QUERYs that arrive: from B, for the key b, with one hop left.
ForwardTexts == {format(<<myId("B"), <<"b">>, <<"1">>>>)}

NextForward ==
    \/ \E p \in Nodes : EnvJoin(Observed, p, p)
    \/ JoinAdd(Observed)
    \/ \E p \in Nodes : EnvQuit(Observed, p)
    \/ \E f \in Names : AddLocalFile(Observed, f)
    \/ \E d \in ForwardTexts : EnvQuery(Observed, d)
    \/ \E q \in queries : ForwardStart(q)
    \/ ForwardNext
    \/ ForwardEnd
    \/ \E q \in queries :
          /\ q.at # Observed \/ Matches(files[q.at], q.key) # {}
          /\ ProcessQuery(q)

SpecForward == InitSweep /\ [][NextForward]_vars

----------------------------------------------------------------------------
(* One search of the observed node in a network where nothing else is      *)
(* asked for: the files are registered before it.                          *)

\* The file indices that hold registered files only.
Registrations(names) ==
    {fs \in UNION {[1..k -> {Entry(f, Local) : f \in names}] : k \in 0..MaxFiles} :
        \A i, j \in 1..Len(fs) : fs[i].name = fs[j].name => i = j}

InitSearch ==
    /\ Joined
    /\ disk = [n \in Nodes |-> Empty]
    /\ files \in {fx \in [Nodes -> Registrations(Names)] :
                    Len(fx["A"]) + Len(fx["B"]) + Len(fx["C"]) <= MaxFiles}

NextSearch ==
    \/ \E k \in Keys : FirstSearch(Observed, k)
    \/ \E q \in queries : ProcessQuery(q)

SpecSearch == InitSearch /\ [][NextSearch]_vars

\* Overlay graphs with cycles: a ring, and every node a neighbour of every
\* other.
Ring == [n \in Nodes |-> IF n = "A" THEN [p \in {"B"} |-> p]
                         ELSE IF n = "B" THEN [p \in {"C"} |-> p]
                         ELSE [p \in {"A"} |-> p]]

Mesh == [n \in Nodes |-> [p \in Nodes \ {n} |-> p]]

InitFlood ==
    /\ maxPeers = 0
    /\ peers \in {Ring, Mesh}
    /\ alive = Nodes
    /\ handler = [n \in Nodes |-> IdleHandler]
    /\ gui = [n \in Nodes |-> IdleGui]
    /\ stab = [n \in Nodes |-> IdleStab]
    /\ ev = NoEv
    /\ walk0 = NoWalk
    /\ files \in {[n \in Nodes |-> IF n = "C" THEN fs ELSE <<>>] :
                    fs \in {<<>>, <<Entry(<<"b">>, Local)>>}}
    /\ disk = [n \in Nodes |-> Empty]
    /\ queries = {}
    /\ search0 = NoSearch
    /\ wire = NoWire
    /\ shutdown = [n \in Nodes |-> FALSE]
    /\ main = [n \in Nodes |-> Listening]
    /\ storing = {}
    /\ iter = NoIter
    /\ conn = NoConn

\* One search on such a graph.
SpecFlood == InitFlood /\ [][NextSearch]_vars

----------------------------------------------------------------------------
(* Fetches of the observed node from nodes that may stop. *)

\* The texts a file holds.
Contents == {<<>>, <<"a">>, <<"E">>}

\* The working directories: some of the names, each with a content.
Disks == UNION {[ns -> Contents] : ns \in SUBSET Names}

\* The file indices the observed node has after its searches.
Learned ==
    {fs \in UNION {[1..k -> {Entry(f, o) : f \in Names,
                                o \in {Local} \cup
                                      {myId(m) : m \in Nodes \ {Observed}}}] :
                     k \in 0..MaxFiles} :
        \A i, j \in 1..Len(fs) : fs[i].name = fs[j].name => i = j}

\* onFetch does not read the directory: the directories are left empty.
InitFetch ==
    /\ Joined
    /\ peers = [n \in Nodes |-> Empty]
    /\ files \in {fx \in [Nodes -> Learned] :
                    /\ \A n \in Nodes \ {Observed} :
                          fx[n] \in Registrations(Names)
                    /\ Len(fx["A"]) + Len(fx["B"]) + Len(fx["C"])
                          <= MaxFiles}
    /\ disk \in {dx \in [Nodes -> Disks] : dx[Observed] = Empty}

NextFetch ==
    \/ \E i \in 1..MaxFiles : onFetch(Observed, i)
    \/ \E n \in Nodes \ {Observed} : Crash(n)

SpecFetch == InitFetch /\ [][NextFetch]_vars

----------------------------------------------------------------------------
(* The file index of the observed node under registrations, fetches and   *)
(* QRESPONSEs from anyone.                                                 *)

\* The texts of the QRESPONSEs that arrive: a name and an owner, or less.
ResponseTexts ==
    {format(<<f, myId(m)>>) : f \in Names, m \in Nodes} \cup Names

NextIndex ==
    \/ \E f \in Names : AddLocalFile(Observed, f)
    \/ \E i \in 1..MaxFiles : onFetch(Observed, i)
    \/ \E d \in ResponseTexts : ResponseCheck(Observed, d)
    \/ \E t \in storing : ResponseStore(t)

\* Node B has registered files of its own and holds them; the observed
\* node has learned of files in its searches.
InitIndex ==
    /\ Joined
    /\ peers = [n \in Nodes |-> Empty]
    /\ files \in {fx \in [Nodes -> Learned] :
                    /\ fx["B"] \in Registrations(Names)
                    /\ fx["C"] = <<>>}
    /\ disk = [n \in Nodes |->
                 IF n = "B" THEN [f \in FileNames(files[n]) |-> <<"a">>]
                 ELSE Empty]

SpecIndex == InitIndex /\ [][NextIndex]_vars

----------------------------------------------------------------------------
(* Any message of the protocol's types through a PeerConnection. *)

\* Longest text drawn.
MaxLen == 3

Alphabet == {"a", "E", Space}

Texts == UNION {[1..k -> Alphabet] : k \in 0..MaxLen}

Types == {REPLY, ERROR, QUERY}

\* Nodes as their constructors leave them, and a message to send.
InitCodec ==
    /\ maxPeers = 0
    /\ peers = [n \in Nodes |-> Empty]
    /\ alive = Nodes
    /\ handler = [n \in Nodes |-> IdleHandler]
    /\ gui = [n \in Nodes |-> IdleGui]
    /\ stab = [n \in Nodes |-> IdleStab]
    /\ ev = NoEv
    /\ walk0 = NoWalk
    /\ files = [n \in Nodes |-> <<>>]
    /\ disk = [n \in Nodes |-> Empty]
    /\ queries = {}
    /\ search0 = NoSearch
    /\ shutdown = [n \in Nodes |-> FALSE]
    /\ main = [n \in Nodes |-> Listening]
    /\ storing = {}
    /\ iter = NoIter
    /\ conn = NoConn
    /\ wire \in {[pc |-> "new", type |-> t, data |-> d,
                   frame |-> makemsg(t, <<>>), got |-> NoMsg] :
                     t \in Types, d \in Texts}

NextCodec ==
    \/ SendData
    \/ \E closed \in BOOLEAN : RecvData(closed)

SpecCodec == InitCodec /\ [][NextCodec]_vars

----------------------------------------------------------------------------
(* connectAndSend with waitreply, peer.py.  The peer's handler writes the  *)
(* frames of wire.replies; the connection delivers the first wire.whole of *)
(* them and, when it breaks, a part of the next one.                       *)

\* The header of the frame did not arrive whole: struct.unpack raises.
Header == 0 - 1

\* recvData of a frame of which cut payload bytes arrived before the stream
\* ended.
recvPart(frame, cut) ==
    IF cut = Header THEN NoMsg
    ELSE recvData([frame EXCEPT !.payload = SubSeq(@, 1, cut)], TRUE)

RECURSIVE readReplies(_)
\* Lines 246-250: recvData until it returns (None, None).  A stream is the
\* frames that arrived, each with the number of its payload bytes that did.
readReplies(stream) ==
    IF stream = <<>> THEN <<>>
    ELSE LET onereply == recvPart(Head(stream).frame, Head(stream).cut)
         IN  IF onereply = NoMsg THEN <<>>
             ELSE <<onereply>> \o readReplies(Tail(stream))

\* What arrives of the replies: whole frames, then the broken one if any.
Arriving(w) ==
    [i \in 1..(IF w.whole < Len(w.replies) THEN w.whole + 1 ELSE w.whole) |->
        LET frame == makemsg(w.replies[i].type, w.replies[i].data)
        IN  [frame |-> frame,
             cut |-> IF i <= w.whole THEN Len(frame.payload) ELSE w.cut]]

\* connectAndSend(host, port, msgtype, msgdata, waitreply=True): the list
\* it returns.  A refused connection raises in the constructor and the
\* except clause returns the empty list; a failed sendData returns False,
\* which is not looked at, and the peer answers nothing.
connectAndSend(w) ==
    IF ~w.connect THEN <<>>
    ELSE IF ~w.sent THEN readReplies(<<>>)
    ELSE readReplies(Arriving(w))

ConnectAndSend ==
    /\ wire.pc = "dial"
    /\ wire' = [wire EXCEPT !.pc = "returned", !.msgreply = connectAndSend(wire)]
    /\ ev' = Ev("connectAndSend", NoPeer, NoPeer, NoPeer, TRUE, <<>>)
    /\ UNCHANGED <<peers, maxPeers, alive, handler, gui, stab, walk0,
                   fileVars, loopVars, threadVars>>

\* The most frames of a reply.
MaxReplies == 2

ReplyTexts == {<<>>, <<"a">>, <<"a", "a">>}

Replies ==
    UNION {[1..k -> {[type |-> t, data |-> d] :
                        t \in {REPLY, ERROR}, d \in ReplyTexts}] :
             k \in 0..MaxReplies}

\* The connections a call can meet: refused or made, the request sent or
\* not, the reply stream whole or broken inside a frame.
Dials ==
    {[pc |-> "dial", connect |-> c, sent |-> s, replies |-> r, whole |-> k,
      cut |-> j, msgreply |-> <<>>] :
        c \in BOOLEAN, s \in BOOLEAN, r \in Replies,
        k \in 0..MaxReplies, j \in Header..1}

InitConnect ==
    /\ maxPeers = 0
    /\ peers = [n \in Nodes |-> Empty]
    /\ alive = Nodes
    /\ handler = [n \in Nodes |-> IdleHandler]
    /\ gui = [n \in Nodes |-> IdleGui]
    /\ stab = [n \in Nodes |-> IdleStab]
    /\ ev = NoEv
    /\ walk0 = NoWalk
    /\ files = [n \in Nodes |-> <<>>]
    /\ disk = [n \in Nodes |-> Empty]
    /\ queries = {}
    /\ search0 = NoSearch
    /\ shutdown = [n \in Nodes |-> FALSE]
    /\ main = [n \in Nodes |-> Listening]
    /\ storing = {}
    /\ iter = NoIter
    /\ conn = NoConn
    /\ wire \in {w \in Dials :
                    /\ w.whole <= Len(w.replies)
                    /\ IF w.whole < Len(w.replies)
                       THEN w.cut < Len(w.replies[w.whole + 1].data)
                       ELSE w.cut = Header}

NextConnect == ConnectAndSend

SpecConnect == InitConnect /\ [][NextConnect]_vars

----------------------------------------------------------------------------
(* recvData read by read, peer.py.  The connection is a makefile('rwb', 0) *)
(* without buffer: a read returns at least one byte and at most the number *)
(* asked for, or nothing at the end of the stream.                         *)

\* The bytes of the length field: chr(0), chr(1), chr(2), chr(3).
LenChar == <<"x00", "x01", "x02", "x03">>

\* The value of a byte: that of a byte of a length field, or at least 65
\* for a letter and for a byte of a wide character.
Value(b) ==
    IF \E i \in 1..Len(LenChar) : LenChar[i] = b[1]
    THEN (CHOOSE i \in 1..Len(LenChar) : LenChar[i] = b[1]) - 1
    ELSE 65

\* struct.pack("!4sL{msglen}s", ...): the bytes of a frame on the stream.
\* The type is written as its four letters.
pack(frame) ==
    encode(frame.type)
       \o <<<<LenChar[1], 1>>, <<LenChar[1], 1>>, <<LenChar[1], 1>>,
            <<LenChar[frame.len + 1], 1>>>>
       \o frame.payload

\* struct.unpack("!L", lenstr)[0] of four bytes.
unpack(lenstr) ==
    Value(lenstr[1]) * 16777216 + Value(lenstr[2]) * 65536
       + Value(lenstr[3]) * 256 + Value(lenstr[4])

\* recvData returns the message msg; or (None, None); or it does not
\* return.
Return(w, msg) == [w EXCEPT !.pc = "returned", !.ret = "message", !.got = msg]

ReturnNone(w) == [w EXCEPT !.pc = "returned", !.ret = "None"]

\* A read that found the stream empty: it returns nothing when the sender
\* has closed, and waits otherwise.
EndOfStream(w) ==
    IF w.closed THEN ReturnNone(w) ELSE [w EXCEPT !.pc = "returned",
                                                  !.ret = "blocked"]

\* Lines 381-384: self.sd.read(4), decode, the test of the type.
RecvType ==
    /\ wire.pc = "type"
    /\ IF wire.stream = <<>>
       THEN wire' = EndOfStream(wire)
       ELSE \E k \in 1..4 :
              /\ k <= Len(wire.stream)
              /\ LET msgtype == decode(SubSeq(wire.stream, 1, k)) IN
                  wire' = IF msgtype = Bad THEN ReturnNone(wire)
                          ELSE [wire EXCEPT
                                  !.pc = "len", !.msgtype = msgtype,
                                  !.stream = SubSeq(@, k + 1, Len(@))]
    /\ ev' = Ev("read", NoPeer, NoPeer, NoPeer, TRUE, <<>>)
    /\ UNCHANGED <<peers, maxPeers, alive, handler, gui, stab, walk0,
                   fileVars, loopVars, threadVars>>

\* Lines 386-388: self.sd.read(4) and struct.unpack, which raises when the
\* read returned fewer than four bytes.
RecvLen ==
    /\ wire.pc = "len"
    /\ IF wire.stream = <<>>
       THEN wire' = EndOfStream(wire)
       ELSE \E k \in 1..4 :
              /\ k <= Len(wire.stream)
              /\ wire' = IF k < 4 THEN ReturnNone(wire)
                         ELSE [wire EXCEPT
                                 !.pc = "payload",
                                 !.msglen = unpack(SubSeq(wire.stream, 1, 4)),
                                 !.stream = SubSeq(@, 5, Len(@))]
    /\ ev' = Ev("read", NoPeer, NoPeer, NoPeer, TRUE, <<>>)
    /\ UNCHANGED <<peers, maxPeers, alive, handler, gui, stab, walk0,
                   fileVars, loopVars, threadVars>>

\* Lines 390-407: while len(msg) != msglen, one read of at most
\* msglen - len(msg) bytes; the return.
RecvPayload ==
    /\ wire.pc = "payload"
    /\ IF Len(wire.msg) = wire.msglen
       THEN wire' = Return(wire, [type |-> wire.msgtype, data |-> wire.msg])
       ELSE IF wire.stream = <<>>
       THEN wire' = EndOfStream(wire)
       ELSE \E k \in 1..Len(wire.stream) :
              /\ k <= wire.msglen - Len(wire.msg)
              /\ LET data == decode(SubSeq(wire.stream, 1, k)) IN
                  wire' = IF data = Bad THEN ReturnNone(wire)
                          ELSE [wire EXCEPT
                                  !.msg = @ \o data,
                                  !.stream = SubSeq(@, k + 1, Len(@))]
    /\ ev' = Ev("read", NoPeer, NoPeer, NoPeer, TRUE, <<>>)
    /\ UNCHANGED <<peers, maxPeers, alive, handler, gui, stab, walk0,
                   fileVars, loopVars, threadVars>>

\* The types and payloads of the frames on a stream.
StreamTypes == {<<"J", "O", "I", "N">>, <<"L", "I", "S", "T">>}

StreamTexts == UNION {[1..k -> {"a", "E"}] : k \in 0..2}

\* The most frames a sender writes on one connection.
MaxFrames == 2

Streams ==
    UNION {[1..k -> {[type |-> t, data |-> d] :
                        t \in StreamTypes, d \in StreamTexts}] :
             k \in 1..MaxFrames}

RECURSIVE written(_)
\* The bytes of the sendData calls of a sender, in order.
written(frames) ==
    IF frames = <<>> THEN <<>>
    ELSE pack(makemsg(Head(frames).type, Head(frames).data))
            \o written(Tail(frames))

\* A sender has written its frames; it closes the connection or keeps it
\* open.  The receiver calls recvData.
InitStream ==
    /\ maxPeers = 0
    /\ peers = [n \in Nodes |-> Empty]
    /\ alive = Nodes
    /\ handler = [n \in Nodes |-> IdleHandler]
    /\ gui = [n \in Nodes |-> IdleGui]
    /\ stab = [n \in Nodes |-> IdleStab]
    /\ ev = NoEv
    /\ walk0 = NoWalk
    /\ files = [n \in Nodes |-> <<>>]
    /\ disk = [n \in Nodes |-> Empty]
    /\ queries = {}
    /\ search0 = NoSearch
    /\ shutdown = [n \in Nodes |-> FALSE]
    /\ main = [n \in Nodes |-> Listening]
    /\ storing = {}
    /\ iter = NoIter
    /\ conn = NoConn
    /\ wire \in {[pc |-> "type", sent |-> fs, stream |-> written(fs),
                   closed |-> c, msgtype |-> <<>>, msglen |-> 0,
                   msg |-> <<>>, ret |-> "none",
                   got |-> [type |-> <<>>, data |-> <<>>]] :
                     fs \in Streams, c \in BOOLEAN}

NextStream ==
    \/ RecvType
    \/ RecvLen
    \/ RecvPayload

SpecStream == InitStream /\ [][NextStream]_vars

----------------------------------------------------------------------------
(* Claims about the peer directory under Spec *)

\* C1: with a capacity C > 0, no node's directory ever holds more than C
\* entries (the assertion of maxPeersReached never fails).
C1_CapacityRespected ==
    maxPeers > 0 => \A n \in Nodes : numberOfPeers(peers[n]) <= maxPeers

C3_AddKnownIdIsNoOp ==
    [][\A n \in Nodes :
         (ev'.op \in {"JoinAdd", "addPeer"} /\ ev'.n = n
            /\ ev'.pid \in getPeerIds(peers[n]))
         => (ev'.ret = FALSE /\ peers'[n] = peers[n])]_vars

\* C3 witness: addPeer was called for a known id with another address than
\* the stored one, and the stored record is still there.
C3_KnownIdOtherHost ==
    /\ ev.op = "JoinAdd" /\ ev.ret = FALSE
    /\ ev.pid \in getPeerIds(peers[ev.n])
    /\ peers[ev.n][ev.pid] # ev.host

\* C4: a node whose directory holds exactly C > 0 entries answers a JOIN
\* with one ERRO frame, ends the handler and leaves its directory unchanged.
C4_FullJoinRefused ==
    [][\A n \in Nodes :
         (ev'.op = "JoinCheck" /\ ev'.n = n /\ maxPeers > 0
            /\ numberOfPeers(peers[n]) = maxPeers)
         => /\ peers'[n] = peers[n]
            /\ Len(ev'.out) = 1 /\ ev'.out[1][1] = ERROR
            /\ handler'[n].pc = "idle"]_vars

\* C4 witness: a full directory has just refused a JOIN for an unknown id.
C4_FullRefusedNewId ==
    /\ ev.op = "JoinCheck" /\ ev.out = <<JoinError("full")>>
    /\ maxPeers > 0 /\ numberOfPeers(peers[ev.n]) = maxPeers
    /\ ev.pid \notin getPeerIds(peers[ev.n]) /\ ev.pid # ev.n

----------------------------------------------------------------------------
(* Claims about checkLivePeers under SpecSweep *)

----------------------------------------------------------------------------
(* Claims about buildPeers under SpecWalk *)

\* The walk the observed node started has returned.
WalkDone == walk0 # NoWalk /\ gui[Observed].op = "idle"

\* The scenario of C8 with b the bootstrap node and c the node it knows:
\* the observed node started with an empty directory and room for two, b and
\* c were running and below capacity, b held c at c's address, and both are
\* still running.
Scenario(b, c) ==
    /\ b = walk0.host /\ b # Observed /\ c \notin {Observed, b}
    /\ walk0.peers[Observed] = Empty
    /\ (maxPeers = 0 \/ maxPeers >= 2)
    /\ {b, c} \subseteq walk0.alive \cap alive
    /\ ~maxPeersReached(walk0.peers[b]) /\ ~maxPeersReached(walk0.peers[c])
    /\ c \in getPeerIds(walk0.peers[b]) /\ walk0.peers[b][c] = c

\* Neither b nor c held the observed node's id when the walk started.
Unknown(b, c) ==
    /\ Observed \notin getPeerIds(walk0.peers[b])
    /\ Observed \notin getPeerIds(walk0.peers[c])

----------------------------------------------------------------------------
(* Claims about the query flood under SpecQuery *)

\* C5 as the specification states it: a QUERY of a flood that onSearch
\* starts with TTL t travels at most t hops from the searching node.
C5_HopsAtMostTTL == \A q \in queries : q.hop <= SearchTTL

\* C5: a QUERY of a flood that onSearch starts with TTL t travels at most
\* t + 1 hops from the searching node, the frame of hop h carrying the ttl
\* t + 1 - h >= 0, and a node that runs a QUERY with ttl = 0 sends no QUERY.
C5_HopsAtMostTTLPlusOne ==
    /\ \A q \in queries :
          /\ q.hop <= SearchTTL + 1
          /\ q.ttl = SearchTTL + 1 - q.hop
          /\ q.ttl >= 0
    /\ (ev.op = "processQuery" /\ ev.ret = 0) => ev.fwd = {}

\* C5 witness: a node that has neighbours and no matching file has run a
\* QUERY that arrived on hop t + 1 with ttl = 0, and sent nothing.
C5_LastHopRun ==
    /\ ev.op = "processQuery" /\ ev.ret = 0 /\ ev.hop = SearchTTL + 1
    /\ ev.out = <<>> /\ ev.fwd = {}
    /\ getPeerIds(peers[ev.n]) # {}

----------------------------------------------------------------------------
(* Claims about one search under SpecSearch *)

\* Node a has registered f, the observed node has a in its directory and
\* no entry named f, and f is the first name of a's index that contains
\* the key of the search the observed node has made.
Searched(a, f) ==
    /\ search0 # NoSearch
    /\ a \in getPeerIds(peers[Observed])
    /\ f \notin FileNames(search0.files[Observed])
    /\ Contains(f, search0.key)
    /\ Responses(search0.files[a], search0.key, a) = <<format(<<f, myId(a)>>)>>

\* C9: when node a has registered f and the observed node, which has a as
\* a neighbour and no entry named f, searches a key for which f is a's first
\* match, then once the search has run its course the observed node's file
\* index maps f to a's id.
C9_SearchFindsNeighbourFile ==
    \A a \in Nodes \ {Observed}, f \in Names :
        (Searched(a, f) /\ queries = {}) =>
            /\ f \in FileNames(files[Observed])
            /\ Owner(files[Observed], f) = myId(a)

----------------------------------------------------------------------------
(* Claims about fetching under SpecFetch *)

\* C10: when the observed node fetches a name from a running node whose
\* file index contains it and which holds the file, that node replies with
\* one REPL frame whose payload is the file's content, and the observed node
\* stores the content and maps the name to the local sentinel; when the
\* reply is ERRO or nothing, the observed node's file index is unchanged.
C10_FetchStoresContent ==
    [][ev'.op = "onFetch" =>
         LET n == ev'.n
             a == ev'.pid
             f == ev'.host
         IN  /\ (a \in alive /\ f \in FileNames(files[a])
                                /\ f \in DOMAIN disk[a]) =>
                    /\ Len(ev'.fwd) = 1
                    /\ ev'.fwd[1].type = REPLY
                    /\ ev'.fwd[1].payload = encode(disk[a][f])
                    /\ f \in DOMAIN disk'[n]
                    /\ disk'[n][f] = disk[a][f]
                    /\ Owner(files'[n], f) = Local
             /\ (ev'.out = <<>> \/ ev'.out[1].type = ERROR) =>
                    files'[n] = files[n]]_vars

----------------------------------------------------------------------------
(* Claims about the frames under SpecCodec *)

\* C11: recvData of the frame that sendData wrote for (type, text) returns
\* (type, text), and the length field of the frame is the number of payload
\* bytes written.
C11_RoundTrip ==
    wire.pc = "received" =>
        /\ wire.got = [type |-> wire.type, data |-> wire.data]
        /\ wire.frame.len = Len(wire.frame.payload)

----------------------------------------------------------------------------
(* Claims about the file index under SpecIndex *)

\* C12 as the specification states it: an entry of a file index is never
\* changed by a later QRESPONSE, registration or fetch.
C12_EntryNeverChanges ==
    [][\A n \in Nodes : \A i \in 1..Len(files[n]) :
          i <= Len(files'[n]) /\ files'[n][i] = files[n][i]]_vars

\* C12, the part about QRESPONSEs alone: a step of a __handleQResponse
\* thread changes no entry that the index holds.
C12_ResponseKeepsEntry ==
    [][ev'.op \in {"handleQResponse", "storeFile"} =>
         \A i \in 1..Len(files[ev'.n]) :
            files'[ev'.n][i] = files[ev'.n][i]]_vars

\* C13: addPeer(id, host, port) returns true and inserts id with that
\* address exactly when the capacity is not reached, id is not a key and id
\* is not the node's own id; otherwise it returns false and leaves the
\* directory unchanged.
C13_AddExactlyWhen ==
    [][ev'.op = "Peer.addPeer" =>
         LET dir == peers[ev'.n]
             ok  == /\ (maxPeers = 0 \/ numberOfPeers(dir) < maxPeers)
                    /\ ev'.pid \notin getPeerIds(dir)
                    /\ ev'.pid # ev'.n
         IN  /\ ev'.ret = ok
             /\ peers'[ev'.n] = IF ok THEN Put(dir, ev'.pid, ev'.host)
                                 ELSE dir]_vars

\* C14: every insert into and every removal from a peer directory is made
\* by a step that holds the directory's lock.
C14_MutationUnderLock ==
    [][\A n \in Nodes :
          peers'[n] # peers[n] => ev'.op \in UnderLock /\ ev'.n = n]_vars

\* C15: no step that holds the directory lock sends a frame: the frames a
\* step sends (ev.out) are empty for the steps under the lock.
C15_NoSendUnderLock == ev.op \in UnderLock => ev.out = <<>>

\* C16: a JOIN or QUERY whose payload is malformed (not three fields, or
\* a port or ttl that is not a number) is answered with one ERRO frame and
\* changes no directory, no file index and starts no query processing.
C16_MalformedRejected ==
    [][ev'.op \in {"JoinText", "handleQuery"} =>
         LET f == split(ev'.host) IN
         Len(f) # 3 \/ ~IsInt(f[3]) =>
            /\ Len(ev'.out) = 1
            /\ ev'.out[1][1] = ERROR
            /\ peers' = peers
            /\ files' = files
            /\ queries' = queries]_vars

\* C17: connectAndSend with waitreply returns the frames the peer sent, in
\* order, when the connection was made, the request sent and the stream
\* closed after the last frame; after any transport failure (connection
\* refused, send failed, stream broken inside a frame) it returns the empty
\* list.
C17_RepliesOrEmpty ==
    wire.pc = "returned" =>
        IF wire.connect /\ wire.sent /\ wire.whole = Len(wire.replies)
        THEN wire.msgreply = wire.replies
        ELSE wire.msgreply = <<>>

\* C18: the accept loop ends only when the shutdown flag is set, whatever
\* accept() and the handler threads did; once the flag is set the loop
\* ends and the listening socket is closed.
C18_ExitsOnShutdownOnly ==
    /\ [][\A n \in Nodes :
            main[n].pc # "exited" /\ main'[n].pc = "exited" => shutdown[n]]_vars
    /\ [](\A n \in Nodes : main[n].pc = "exited" => n \notin alive)
    /\ (shutdown[Observed] ~> main[Observed].pc = "exited")

\* The loop has ended after accept() timed out and failed, with no
\* connection ever accepted.
C18_ExitedWithoutConnection ==
    /\ main[Observed].pc = "exited"
    /\ Observed \notin alive
    /\ {"timeout", "error"} \subseteq main[Observed].seen
    /\ "connection" \notin main[Observed].seen

\* C19: the stabilizer thread is never ended by an exception: no sweep
\* raises, whatever the probes do and whoever changes the directory during
\* the sweep.
C19_SweepNeverRaises == \A n \in Nodes : stab[n].pc # "raised"

\* C20: the QUIT handler of a node, given the id x: when x is a key of the
\* directory it removes x, leaves every other entry as it was and replies
\* REPL; otherwise it leaves the directory unchanged and replies ERRO 'peer
\* not found'.  Either way x is no key afterwards, so that a second QUIT
\* for x gets ERRO.
C20_QuitRemovesOnlyThatId ==
    [][ev'.op = "Quit" =>
         LET dir == peers[ev'.n]
             x   == ev'.pid
         IN  /\ IF x \in DOMAIN dir
                THEN /\ peers'[ev'.n] = [p \in DOMAIN dir \ {x} |-> dir[p]]
                     /\ ev'.out = << <<REPLY, "Quit: peer removed">> >>
                ELSE /\ peers'[ev'.n] = dir
                     /\ ev'.out = << <<ERROR, "Quit: peer not found">> >>
             /\ x \notin DOMAIN peers'[ev'.n]
             /\ QuitReply(peers'[ev'.n], x)[1] = ERROR]_vars

\* A QUIT removed its id from a directory that holds another entry.
C20_QuitRemovedOneOfTwo ==
    /\ ev.op = "Quit"
    /\ ev.ret
    /\ ev.out[1][1] = REPLY
    /\ peers[ev.n] # Empty

\* C21: a step of a buildPeers walk removes from the walking node's
\* directory only the entry that the failing branch itself added; and the
\* cleanup after a failed exchange returns to the caller, whose remaining
\* branches are still on its list.
C21_CleanupRemovesOwnEntry ==
    [][\A n \in Nodes :
          gui[n].op = "walk" /\ gui'[n] # gui[n] =>
             /\ \A p \in DOMAIN peers[n] \ DOMAIN peers'[n] :
                    /\ Top(gui[n].stack).peerid = p
                    /\ Top(gui[n].stack).added
             /\ ev'.op = "cleanup" => gui'[n].stack = Ret(gui[n].stack)]_vars

\* C22: a forwarding loop that has ended has sent the QUERY exactly once to
\* every peer that was in the directory when it began and still is; and a
\* __processQuery run that found a match forwarded nothing.
C22_ForwardsToEveryPeer ==
    /\ iter.kind = "forward" /\ iter.pc \in {"done", "raised"} =>
          \A p \in DOMAIN iter.dir0 \cap DOMAIN peers[iter.n] :
             Cardinality({i \in 1..Len(iter.out) : iter.out[i] = p}) = 1
    /\ ev.op = "processQuery" /\ ev.out # <<>> => ev.fwd = {}

\* C26: when a JOIN handler sends REPL 'Join: peer added' for an id, the id
\* is a key of that node's directory with the announced address.
C26_AddedWhenReplied ==
    ev.op = "JoinAdd" =>
       /\ ev.pid \in getPeerIds(peers[ev.n])
       /\ peers[ev.n][ev.pid] = ev.host

\* C23: a LIST reply that has ended carried, after the count n, exactly n
\* entry frames, one for each id of the directory and none twice.
C23_ListReplyComplete ==
    iter.kind = "list" /\ iter.pc \in {"done", "raised"} =>
       /\ Len(iter.out) = iter.count
       /\ {iter.out[i][1] : i \in 1..Len(iter.out)} = getPeerIds(iter.dir0)
       /\ \A i, j \in 1..Len(iter.out) :
              iter.out[i][1] = iter.out[j][1] => i = j

\* C25: a message that recvData returns is the first frame the sender
\* wrote, with its type and its payload; otherwise it returns (None, None)
\* or does not return.
C25_FrameOrNothing ==
    wire.pc = "returned" /\ wire.ret = "message" =>
       wire.got = [type |-> wire.sent[1].type, data |-> wire.sent[1].data]

\* C24: the thread of an accepted connection reads at most one frame and
\* invokes at most one handler, the one registered for the upper-cased type
\* it read; when the thread has ended the connection is closed; and for a
\* type with no handler, or no message, the dispatch step invokes nothing,
\* sends nothing and changes neither a directory nor a file index nor the
\* queries.
C24_OneRequestThenClose ==
    /\ [](/\ conn.reads <= 1
          /\ Len(conn.invoked) <= 1
          /\ conn.invoked # <<>> =>
                /\ conn.invoked = <<upper(conn.msgtype)>>
                /\ upper(conn.msgtype) \in Handlers
          /\ conn.pc \in {"closed", "died"} => ~conn.open)
    /\ [][/\ conn.pc = "dispatch"
          /\ conn.msgtype = "None" \/ upper(conn.msgtype) \notin Handlers
          => /\ conn'.invoked = <<>>
             /\ conn'.replies = <<>>
             /\ UNCHANGED <<peers, fileVars>>]_vars

\* The QUERY frame of the search is on a connection whose two ends wait for
\* each other: recvData for the rest of the payload, connectAndSend for the
\* reply.  No step leaves this state: the QUERY stays in flight for ever.
Stuck == gui[Observed].op = "blocked"

\* C27: no QUERY carries a negative ttl or travels more than SearchTTL + 1
\* hops; the QUERYs a __processQuery run forwards carry a ttl smaller than
\* the one it received; and no QUERY stays in flight for ever, so that the
\* threads of a search, which are finitely many, run until none is left.
C27_FloodTerminates ==
    /\ [](\A q \in queries : q.ttl >= 0 /\ q.hop <= SearchTTL + 1)
    /\ [][ev'.op = "processQuery" =>
             \A q \in queries' \ queries : q.ttl < ev'.ret]_vars
    /\ [](~Stuck)

====
